---- MODULE Spec2Model ----
(***************************************************************************)
(* Streaming chat session controller of the ai-sme frontend:               *)
(*   - the chat store (lib/store/chat.ts),                                 *)
(*   - the auth store and the streaming API client (lib/store/auth.ts),    *)
(*   - the input controller handleSend (components/chat/ChatInput.tsx),    *)
(*   - the sidebar / page callers (Sidebar.tsx, app/chat/page.tsx).        *)
(*                                                                         *)
(* Strings are sequences of one-character strings, so that trim, split,    *)
(* startsWith, slice and concatenation are computed as the code computes   *)
(* them.  A fixed message of the code is a one-element sequence holding    *)
(* the whole text.                                                         *)
(***************************************************************************)
EXTENDS Integers, Sequences, FiniteSets, TLC

\* ------------------------------------------------------------------ bounds
MaxCalls == 2       \* handleSend invocations that can be in flight at once
MaxReads == 1       \* reader.read() results that carry a chunk, per exchange
MaxTime == 2        \* largest value of the clock Date.now()
MaxEvents == 2      \* events on the wire in the decoder specification
MaxStoreTime == 3   \* largest value of the clock in the store specification

\* ------------------------------------------------------- values and strings
NULL == <<"<null>">>                 \* null / undefined of a string-valued field
NoId == <<-1, "">>                   \* null of an id-valued field
Falsy(s) == s = NULL \/ s = <<>>     \* JavaScript !s for a string or null
Str(s) == IF s = NULL THEN <<"undefined">> ELSE s   \* string conversion in +=

IsWs(c) == c \in {" ", "\t", "\r", "\n"}

RECURSIVE TrimStart(_)
TrimStart(s) == IF s # <<>> /\ IsWs(Head(s)) THEN TrimStart(Tail(s)) ELSE s

RECURSIVE TrimEnd(_)
TrimEnd(s) ==
  IF s # <<>> /\ IsWs(s[Len(s)]) THEN TrimEnd(SubSeq(s, 1, Len(s) - 1)) ELSE s

\* String.prototype.trim
Trim(s) == TrimEnd(TrimStart(s))

\* ------------------------------------------------------------ wire format
\* Decoded JSON values.  Every value is a record of the same shape; a key the
\* payload does not carry is NULL.  JsonNull is the JSON text `null`.
Event(t, c, a, s, e) == [type |-> t, content |-> c, answer |-> a, sources |-> s, error |-> e]
TokenEv(c) == Event("token", c, NULL, NULL, NULL)
CompleteEv(a, s) == Event("complete", NULL, a, s, NULL)
ErrorEv(m) == Event("error", NULL, NULL, NULL, m)
OtherEv == Event("ping", NULL, NULL, NULL, NULL)
JsonNull == Event("<jsnull>", NULL, NULL, NULL, NULL)

JsonValues ==
  { TokenEv(<<"x">>), TokenEv(<<"y">>), TokenEv(<<>>),
    CompleteEv(<<"z">>, <<"s1">>), CompleteEv(<<>>, NULL), CompleteEv(NULL, <<"s1">>),
    ErrorEv(<<"E">>), ErrorEv(NULL), OtherEv, JsonNull }

\* JSON.stringify of a value of JsonValues, one character per lexical unit:
\* "{" tag key-values "}" with "c"/"a"/"s"/"e" introducing the key that follows.
Field(k, v) == IF v = NULL THEN <<>> ELSE <<k>> \o v
TypeTag(t) == CASE t = "token" -> "t" [] t = "complete" -> "c" [] t = "error" -> "e" [] OTHER -> "p"
Stringify(v) ==
  IF v = JsonNull THEN <<"n">>
  ELSE <<"{", TypeTag(v.type)>> \o Field("C", v.content) \o Field("A", v.answer)
         \o Field("S", v.sources) \o Field("M", v.error) \o <<"}">>

ParseError == Event("<SyntaxError>", NULL, NULL, NULL, NULL)

\* JSON.parse: the value whose text is `data` (surrounding whitespace is
\* allowed by the JSON grammar), a SyntaxError for any other text.
JSONParse(data) ==
  IF \E v \in JsonValues : Stringify(v) = Trim(data)
  THEN CHOOSE v \in JsonValues : Stringify(v) = Trim(data)
  ELSE ParseError

DataPrefix == <<"d", "a", "t", "a", ":", " ">>

\* One event line as the generation service writes it.
EncodeEvent(v) == DataPrefix \o Stringify(v) \o <<"\n">>

RECURSIVE EncodeAll(_)
EncodeAll(evs) == IF evs = <<>> THEN <<>> ELSE EncodeEvent(Head(evs)) \o EncodeAll(Tail(evs))

\* ------------------------------------------------------ streamMessage decoder
\* String.prototype.split('\n')
RECURSIVE SplitFrom(_, _)
SplitFrom(s, cur) ==
  IF s = <<>> THEN <<cur>>
  ELSE IF Head(s) = "\n" THEN <<cur>> \o SplitFrom(Tail(s), <<>>)
  ELSE SplitFrom(Tail(s), Append(cur, Head(s)))

SplitLines(chunk) == SplitFrom(chunk, <<>>)

\* String.prototype.startsWith
StartsWith(s, p) == Len(s) >= Len(p) /\ SubSeq(s, 1, Len(p)) = p

\* line.slice(6)
Slice6(line) == SubSeq(line, Len(DataPrefix) + 1, Len(line))

\* What one line of a chunk makes the generator yield: nothing or one value.
DecodeLine_noCatch(line) ==
  IF StartsWith(line, DataPrefix) /\ Trim(Slice6(line)) # <<>>
  THEN <<JSONParse(Slice6(line))>>
  ELSE <<>>
DecodeLine(line) ==
  IF StartsWith(line, DataPrefix)
  THEN LET data == Slice6(line)
       IN IF Trim(data) # <<>>
          THEN IF JSONParse(data) = ParseError THEN <<>> ELSE <<JSONParse(data)>>
          ELSE <<>>
  ELSE <<>>

RECURSIVE DecodeLines(_)
DecodeLines(lines) ==
  IF lines = <<>> THEN <<>> ELSE DecodeLine(Head(lines)) \o DecodeLines(Tail(lines))

\* The values yielded for one chunk returned by reader.read(), in order.
DecodeChunk(chunk) == DecodeLines(SplitLines(chunk))

\* ------------------------------------------------------------------- state
VARIABLES
  conversations,          \* chat store: Map<string, Conversation>
  currentConversationId,  \* chat store: active conversation id or NoId
  isLoading,              \* chat store: loading flag
  error,                  \* chat store: last error message or NULL
  user,                   \* auth store
  accessToken,            \* auth store: bearer token or NULL
  isAuthenticated,        \* auth store
  now,                    \* the clock read by Date.now() and new Date(); every
                          \* handler that creates an id runs one tick after the last
  calls,                  \* the accepted handleSend invocations, by call number
  dWire,                  \* decoder specification: bytes not yet read
  dEvents,                \* decoder specification: the events the bytes encode
  dOut,                   \* decoder specification: values yielded so far
  dDone,                  \* decoder specification: reader.read() returned done
  op                      \* store specification: the last call made on the store

storeVars == <<conversations, currentConversationId, isLoading, error>>
authVars == <<user, accessToken, isAuthenticated>>
decVars == <<dWire, dEvents, dOut, dDone>>
vars == <<conversations, currentConversationId, isLoading, error, user, accessToken,
          isAuthenticated, now, calls, dWire, dEvents, dOut, dDone, op>>

CallIds == 1..MaxCalls
\* Sample outcomes of Math.random().toString(36).substr(2, 9).  Two ids are
\* equal only when clock and suffix are both equal.  Conversation ids are
\* created at different clock values, so one suffix stands for all of them;
\* the two message ids of one handleSend share the clock value and are drawn
\* with different suffixes.
Rand == {"k3f9", "p0q2"}
FirstRand == {"k3f9"}
SecondRand == Rand \ FirstRand

\* ---------------------------------------------------------------- chat store
\* `conv_${Date.now()}_${random}` and `msg_${Date.now()}_${random}`: the pair
\* (clock, random suffix); the two prefixes keep the id spaces apart.
generateId(t, r) == <<t, r>>
generateMessageId(t, r) == <<t, r>>

Message(id, role, content, sources, t) ==
  [id |-> id, role |-> role, content |-> content, sources |-> sources, timestamp |-> t]

NewConversation(id, t) == [id |-> id, messages |-> <<>>, createdAt |-> t, updatedAt |-> t]

\* Map.set on a copy of the map
MapSet_drop(map, key, value) == map
MapSet(m, k, v) == [x \in DOMAIN m \cup {k} |-> IF x = k THEN v ELSE m[x]]
\* Map.delete on a copy of the map
MapDelete(m, k) == [x \in DOMAIN m \ {k} |-> m[x]]

\* chat.ts lines 144-145: the active id after deleteConversation(id)
NewCurrentId_keep(current, id) == current
NewCurrentId(current, id) == IF current = id THEN NoId ELSE current

\* addMessage: the conversations map after the call
AddMessage_upsert(convs, conversationId, role, content, mid, t) ==
  MapSet(convs, conversationId,
         [(IF conversationId \in DOMAIN convs THEN convs[conversationId]
           ELSE NewConversation(conversationId, t)) EXCEPT
            !.messages = Append(@, Message(mid, role, content, NULL, t)),
            !.updatedAt = t])
AddMessage_prepend(convs, conversationId, role, content, mid, t) ==
  IF conversationId \notin DOMAIN convs THEN convs
  ELSE MapSet(convs, conversationId,
              [convs[conversationId] EXCEPT
                 !.messages = <<Message(mid, role, content, NULL, t)>> \o @,
                 !.updatedAt = t])
AddMessage(convs, conversationId, role, content, mid, t) ==
  IF conversationId \notin DOMAIN convs THEN convs
  ELSE MapSet(convs, conversationId,
              [convs[conversationId] EXCEPT
                 !.messages = Append(@, Message(mid, role, content, NULL, t)),
                 !.updatedAt = t])

\* { ...msg, ...updates }: updates is a record with some of the keys of a message
Merge(msg, updates) ==
  [f \in DOMAIN msg |-> IF f \in DOMAIN updates THEN updates[f] ELSE msg[f]]

\* updateMessage: the conversations map after the call
UpdateMessage(convs, conversationId, messageId, updates, t) ==
  IF conversationId \notin DOMAIN convs THEN convs
  ELSE MapSet(convs, conversationId,
              [convs[conversationId] EXCEPT
                 !.messages = [i \in DOMAIN @ |->
                                 IF @[i].id = messageId THEN Merge(@[i], updates) ELSE @[i]],
                 !.updatedAt = t])

\* The update handleSend makes to "the last message" of the conversation:
\* only if the conversation exists, is not empty and ends with an assistant
\* message that satisfies `cond`.
UpdateLast_recreate(convs, conversationId, updates, t, onlyIfEmpty) ==
  IF conversationId \notin DOMAIN convs
  THEN MapSet(convs, conversationId,
              [NewConversation(conversationId, t) EXCEPT
                 !.messages = <<Message(NoId, "assistant", updates.content, NULL, t)>>])
  ELSE IF Len(convs[conversationId].messages) > 0
  THEN LET lastMessage == convs[conversationId].messages[Len(convs[conversationId].messages)]
       IN IF lastMessage.role = "assistant" /\ (onlyIfEmpty => Falsy(lastMessage.content))
          THEN UpdateMessage(convs, conversationId, lastMessage.id, updates, t)
          ELSE convs
  ELSE convs
UpdateLast(convs, conversationId, updates, t, onlyIfEmpty) ==
  IF conversationId \in DOMAIN convs /\ Len(convs[conversationId].messages) > 0
  THEN LET lastMessage == convs[conversationId].messages[Len(convs[conversationId].messages)]
       IN IF lastMessage.role = "assistant" /\ (onlyIfEmpty => Falsy(lastMessage.content))
          THEN UpdateMessage(convs, conversationId, lastMessage.id, updates, t)
          ELSE convs
  ELSE convs

\* ------------------------------------------------------------ handleSend
UserInputs == { <<>>, <<" ">>, <<"a">>, <<" ", "a", " ">> }

ApologyText == <<"Sorry, I encountered an error. Please try again.">>
NotAuthenticated == <<"Not authenticated. Please sign in.">>
AuthenticationFailed == <<"Authentication failed. Please sign in again.">>
HttpError(status) == <<"HTTP error! status: ", status>>
NoResponseBody == <<"No response body">>
UnknownError == <<"Unknown error">>
FailedToFetch == <<"Failed to fetch">>
ReadFailed == <<"network error">>
NullType == <<"Cannot read properties of null (reading 'type')">>

NoCall ==
  [pc |-> "unused", conversationId |-> NoId, fullContent |-> <<>>, pending |-> <<>>,
   seen |-> <<>>, status |-> "", locked |-> FALSE, reads |-> 0,
   phId |-> NoId, phIdx |-> 0]

InFlight(c) == calls[c].pc # "unused"

\* auth.ts lines 220-222: finally { reader.releaseLock() }, run on every way
\* out of the read loop; the reader is not held afterwards.
ReleaseLock_leak(locked) == locked
ReleaseLock(locked) == FALSE

\* The slot of an invocation that has returned: its locals are gone, the
\* reader the generator held has been through the generator's finally.
Returned(call) == [NoCall EXCEPT !.locked = ReleaseLock(call.locked)]

\* No call has been made on the store by the caller of the store specification.
NoOp == [name |-> "none", conversationId |-> NoId, messageId |-> NoId,
         updates |-> [content |-> <<>>]]

\* line 26: the early return of handleSend
Rejected_onlyLoading(input) == isLoading
Rejected_noGuard(input) == Trim(input) = <<>>
Rejected(input) == Trim(input) = <<>> \/ isLoading

\* line 51: setError(null)
ErrorAtDispatch_keep(previous) == previous
ErrorAtDispatch(previous) == NULL

\* lines 25-56: the guard, then the synchronous dispatch up to the creation of
\* the generator.  rc, ru, ra are the random suffixes of the ids generated.
HandleSend(input, rc, ru, ra) ==
  IF Rejected(input)
  THEN UNCHANGED vars
  ELSE
    /\ \E c \in CallIds : calls[c].pc = "unused"
    /\ LET c == CHOOSE k \in CallIds :
                  calls[k].pc = "unused" /\ \A j \in CallIds : j < k => calls[j].pc # "unused"
           messageContent == Trim(input)
           created == currentConversationId = NoId
           conversationId == IF created THEN generateId(now, rc) ELSE currentConversationId
           convs0 == IF created THEN MapSet(conversations, conversationId, NewConversation(conversationId, now))
                     ELSE conversations
           convs1 == AddMessage(convs0, conversationId, "user", messageContent,
                                generateMessageId(now, ru), now)
           convs2 == AddMessage(convs1, conversationId, "assistant", <<>>,
                                generateMessageId(now, ra), now)
       IN /\ conversations' = convs2
          /\ currentConversationId' = conversationId
          /\ isLoading' = TRUE
          /\ error' = ErrorAtDispatch(error)
          /\ calls' = [calls EXCEPT ![c] =
                         [NoCall EXCEPT !.pc = "start",
                                        !.conversationId = conversationId,
                                        !.phId = generateMessageId(now, ra),
                                        !.phIdx = IF conversationId \in DOMAIN convs2
                                                  THEN Len(convs2[conversationId].messages)
                                                  ELSE 0]]
    /\ now < MaxTime
    /\ now' = now + 1
    /\ UNCHANGED <<authVars, decVars, op>>

\* ChatInput.tsx lines 31-35: the local conversationId, resolved once at
\* dispatch, is what every later update of the invocation is addressed to.
TargetConversation_active(call, current) == current
TargetConversation(call, current) == call.conversationId

\* lines 87-103: catch and finally of handleSend, entered with the message of
\* the thrown error; the generator, when it holds the reader, has released it
\* in its own finally (auth.ts line 221) before the exception arrives.  The
\* invocation has returned: its locals are gone and its slot is free again.
Fail_keepsLoading(c, message) ==
  /\ error' = message
  /\ conversations' = UpdateLast(conversations, calls[c].conversationId,
                                 [content |-> ApologyText], now, TRUE)
  /\ isLoading' = isLoading
  /\ currentConversationId' = currentConversationId
  /\ calls' = [calls EXCEPT ![c] = Returned(calls[c])]
Fail_overwrite(c, message) ==
  /\ error' = message
  /\ conversations' = UpdateLast(conversations, calls[c].conversationId,
                                 [content |-> ApologyText], now, FALSE)
  /\ isLoading' = FALSE
  /\ currentConversationId' = currentConversationId
  /\ calls' = [calls EXCEPT ![c] = Returned(calls[c])]
Fail_noApology(c, message) ==
  /\ error' = message
  /\ conversations' = conversations
  /\ isLoading' = FALSE
  /\ currentConversationId' = currentConversationId
  /\ calls' = [calls EXCEPT ![c] = Returned(calls[c])]
Fail(c, message) ==
  /\ error' = message
  /\ conversations' = UpdateLast(conversations,
                                 TargetConversation(calls[c], currentConversationId),
                                 [content |-> ApologyText], now, TRUE)
  /\ isLoading' = FALSE
  /\ currentConversationId' = currentConversationId
  /\ calls' = [calls EXCEPT ![c] = Returned(calls[c])]

\* auth.ts lines 41-47
clearAuth ==
  /\ user' = NULL
  /\ accessToken' = NULL
  /\ isAuthenticated' = FALSE

\* auth.ts lines 162-163: if (!token)
TokenMissing_never(token) == FALSE
TokenMissing(token) == Falsy(token)

\* auth.ts lines 160-179: the first next() on the generator reads the token
\* and either throws or issues the POST to /api/chat/stream.
StreamStart(c) ==
  /\ calls[c].pc = "start"
  /\ IF TokenMissing(accessToken)
     THEN Fail(c, NotAuthenticated)
     ELSE /\ calls' = [calls EXCEPT ![c].pc = "fetching"]
          /\ UNCHANGED storeVars
  /\ UNCHANGED <<authVars, now, decVars, op>>

\* What fetch can come back with: a rejected promise, or a response with a
\* status and with or without a body.
FetchOutcomes == {"reject", "nobody", "200", "401", "403", "500"}

\* auth.ts lines 167-179: the promise of fetch settles; a response is kept
\* until the generator goes on after the await.
FetchReturn(c, outcome) ==
  /\ calls[c].pc = "fetching"
  /\ IF outcome = "reject"
     THEN Fail(c, FailedToFetch)
     ELSE /\ calls' = [calls EXCEPT ![c].pc = "responded", ![c].status = outcome]
          /\ UNCHANGED storeVars
  /\ UNCHANGED <<authVars, now, decVars, op>>

\* auth.ts line 184: response.status === 403 || response.status === 401
IsAuthFailure_only401(status) == status = "401"
IsAuthFailure(status) == status \in {"401", "403"}

\* auth.ts lines 181-197: the response is looked at; a response that is ok and
\* has a body gives the reader.
Respond(c) ==
  /\ calls[c].pc = "responded"
  /\ CASE calls[c].status \in {"401", "403", "500"} ->
            IF IsAuthFailure(calls[c].status)
            THEN clearAuth /\ Fail(c, AuthenticationFailed)
            ELSE Fail(c, HttpError(calls[c].status)) /\ UNCHANGED authVars
       [] calls[c].status = "nobody" -> Fail(c, NoResponseBody) /\ UNCHANGED authVars
       [] OTHER -> /\ calls' = [calls EXCEPT ![c].pc = "reading", ![c].locked = TRUE]
                   /\ UNCHANGED <<storeVars, authVars>>
  /\ UNCHANGED <<now, decVars, op>>

\* A line that starts with the prefix and whose payload is no JSON text.
MalformedLine == DataPrefix \o <<"{", "t", "C", "\n">>

\* One line of the body: an event line, or the malformed line for ParseError.
EncodeLine(v) == IF v = ParseError THEN MalformedLine ELSE EncodeEvent(v)

RECURSIVE EncodeLines(_)
EncodeLines(ls) == IF ls = <<>> THEN <<>> ELSE EncodeLine(Head(ls)) \o EncodeLines(Tail(ls))

\* The chunks the response body delivers in the controller specification, as
\* the lines each one holds: whole event lines and lines that do not parse.
ChunkLines ==
  { <<TokenEv(<<"x">>)>>,
    <<TokenEv(<<"x">>), TokenEv(<<"y">>)>>,
    <<TokenEv(<<"x">>), ParseError, TokenEv(<<"y">>)>>,
    <<TokenEv(<<"x">>), CompleteEv(<<"z">>, <<"s1">>)>>,
    <<TokenEv(<<"x">>), CompleteEv(<<>>, NULL)>>,
    <<ErrorEv(NULL)>>,
    <<ErrorEv(<<"E">>), TokenEv(<<"x">>)>>,
    <<TokenEv(<<"x">>), OtherEv, TokenEv(<<"y">>)>>,
    <<ParseError>> }

StreamChunks == { EncodeLines(ls) : ls \in ChunkLines }

\* auth.ts lines 200-205: reader.read() returns a chunk; its lines are decoded
\* and the values they yield wait for the for-await loop.
ReadChunk(c, chunk) ==
  /\ calls[c].pc = "reading"
  /\ calls[c].pending = <<>>
  /\ calls[c].reads < MaxReads
  /\ calls' = [calls EXCEPT ![c].pending = DecodeChunk(chunk), ![c].reads = @ + 1]
  /\ UNCHANGED <<storeVars, authVars, now, decVars, op>>

\* auth.ts lines 201-202, 220-222 and ChatInput.tsx lines 101-103:
\* reader.read() returns done; the generator ends (its finally releases the
\* reader), the for-await loop ends and handleSend's finally clears the flag.
ReadDone(c) ==
  /\ calls[c].pc = "reading"
  /\ calls[c].pending = <<>>
  /\ calls' = [calls EXCEPT ![c] = Returned(calls[c])]
  /\ isLoading' = FALSE
  /\ UNCHANGED <<conversations, currentConversationId, error, authVars, now, decVars, op>>

\* auth.ts line 201: reader.read() rejects (the connection broke)
ReadFail(c) ==
  /\ calls[c].pc = "reading"
  /\ calls[c].pending = <<>>
  /\ Fail(c, ReadFailed)
  /\ UNCHANGED <<authVars, now, decVars, op>>

\* ChatInput.tsx line 60: fullContent += chunk.content
Accumulate_overwrite(fullContent, chunk) == Str(chunk.content)
Accumulate(fullContent, chunk) == fullContent \o Str(chunk.content)

\* ChatInput.tsx line 78: chunk.answer || fullContent
FinalContent_accumulator(chunk, fullContent) == fullContent
FinalContent(chunk, fullContent) ==
  IF Falsy(chunk.answer) THEN fullContent ELSE chunk.answer

\* ChatInput.tsx line 83: chunk.type === 'error'
IsErrorEvent_never(chunk) == FALSE
IsErrorEvent_else(chunk) == TRUE
IsErrorEvent(chunk) == chunk.type = "error"

\* ChatInput.tsx lines 58-86: the body of the for-await loop for the next
\* value the generator yields.
ApplyEvent(c) ==
  /\ calls[c].pc = "reading"
  /\ calls[c].pending # <<>>
  /\ LET chunk == Head(calls[c].pending)
         conversationId == TargetConversation(calls[c], currentConversationId)
         consumed == [calls EXCEPT ![c].pending = Tail(@), ![c].seen = Append(@, chunk)]
     IN CASE chunk = JsonNull -> Fail(c, NullType)
          [] chunk.type = "token" ->
               LET fullContent == Accumulate(calls[c].fullContent, chunk)
               IN /\ calls' = [consumed EXCEPT ![c].fullContent = fullContent]
                  /\ conversations' = UpdateLast(conversations, conversationId,
                                                 [content |-> fullContent], now, FALSE)
                  /\ UNCHANGED <<currentConversationId, isLoading, error>>
          [] chunk.type = "complete" ->
               /\ calls' = consumed
               /\ conversations' =
                    UpdateLast(conversations, conversationId,
                               [content |-> FinalContent(chunk, calls[c].fullContent),
                                sources |-> chunk.sources], now, FALSE)
               /\ UNCHANGED <<currentConversationId, isLoading, error>>
          [] IsErrorEvent(chunk) ->
               Fail(c, IF Falsy(chunk.error) THEN UnknownError ELSE chunk.error)
          [] OTHER -> calls' = consumed /\ UNCHANGED storeVars
  /\ UNCHANGED <<authVars, now, decVars, op>>

\* ------------------------------------------------------ the other callers
\* Sidebar.tsx line 46: the New Chat button; chat.ts lines 60-77
createConversation(r) ==
  /\ conversations' = MapSet(conversations, generateId(now, r),
                             NewConversation(generateId(now, r), now))
  /\ currentConversationId' = generateId(now, r)
  /\ now < MaxTime
  /\ now' = now + 1
  /\ UNCHANGED <<isLoading, error, authVars, calls, decVars, op>>

\* Sidebar.tsx line 80: a click on a listed conversation; chat.ts lines 79-81
setCurrentConversation(id) ==
  /\ id \in DOMAIN conversations
  /\ currentConversationId' = id
  /\ UNCHANGED <<conversations, isLoading, error, authVars, now, calls, decVars, op>>

\* Sidebar.tsx lines 25-35 after the backend has confirmed; chat.ts lines 140-151
deleteConversation(id) ==
  /\ id \in DOMAIN conversations
  /\ conversations' = MapDelete(conversations, id)
  /\ currentConversationId' = NewCurrentId(currentConversationId, id)
  /\ UNCHANGED <<isLoading, error, authVars, now, calls, decVars, op>>

\* GoogleSignIn: setAuth(response.user, response.access_token); auth.ts lines 33-39
setAuth ==
  /\ user' = <<"u1">>
  /\ accessToken' = <<"jwt">>
  /\ isAuthenticated' = TRUE
  /\ UNCHANGED <<storeVars, now, calls, decVars, op>>

\* app/chat/page.tsx lines 68-72
handleLogout ==
  /\ clearAuth
  /\ UNCHANGED <<storeVars, now, calls, decVars, op>>

\* ------------------------------------------------------------ specification
Init ==
  /\ conversations = << >>
  /\ currentConversationId = NoId
  /\ isLoading = FALSE
  /\ error = NULL
  /\ user = NULL
  /\ accessToken = NULL
  /\ isAuthenticated = FALSE
  /\ now = 0
  /\ calls = [c \in CallIds |-> NoCall]
  /\ dWire = <<>>
  /\ dEvents = <<>>
  /\ dOut = <<>>
  /\ dDone = FALSE
  /\ op = NoOp

Next ==
  \/ \E input \in UserInputs, rc, ru \in FirstRand, ra \in SecondRand : HandleSend(input, rc, ru, ra)
  \/ \E c \in CallIds : StreamStart(c)
  \/ \E c \in CallIds, outcome \in FetchOutcomes : FetchReturn(c, outcome)
  \/ \E c \in CallIds : Respond(c)
  \/ \E c \in CallIds, chunk \in StreamChunks : ReadChunk(c, chunk)
  \/ \E c \in CallIds : ReadDone(c)
  \/ \E c \in CallIds : ReadFail(c)
  \/ \E c \in CallIds : ApplyEvent(c)
  \/ \E r \in FirstRand : createConversation(r)
  \/ \E id \in DOMAIN conversations : setCurrentConversation(id)
  \/ \E id \in DOMAIN conversations : deleteConversation(id)
  \/ setAuth
  \/ handleLogout

Spec == Init /\ [][Next]_vars

\* ------------------------------------------- decoder specification
\* The events a response carries in the decoder specification.
DecoderEvents == { TokenEv(<<"x">>), CompleteEv(<<"z">>, <<"s1">>) }

EventSeqs(n) == UNION { [1..k -> DecoderEvents] : k \in 0..n }

\* The response body is the text of up to MaxEvents event lines.
InitDecoder ==
  /\ conversations = << >>
  /\ currentConversationId = NoId
  /\ isLoading = FALSE
  /\ error = NULL
  /\ user = NULL
  /\ accessToken = NULL
  /\ isAuthenticated = FALSE
  /\ now = 0
  /\ calls = [c \in CallIds |-> NoCall]
  /\ dEvents \in EventSeqs(MaxEvents)
  /\ dWire = EncodeAll(dEvents)
  /\ dOut = <<>>
  /\ dDone = FALSE
  /\ op = NoOp

\* auth.ts lines 200-218: reader.read() returns the next k bytes of the body
\* as one chunk; the loop yields what the lines of this chunk decode to.
DecoderRead(k) ==
  /\ ~dDone
  /\ k \in 1..Len(dWire)
  /\ dOut' = dOut \o DecodeChunk(SubSeq(dWire, 1, k))
  /\ dWire' = SubSeq(dWire, k + 1, Len(dWire))
  /\ UNCHANGED <<storeVars, authVars, now, calls, dEvents, dDone, op>>

\* auth.ts lines 201-202: the body is exhausted, reader.read() returns done
DecoderDone ==
  /\ ~dDone
  /\ dWire = <<>>
  /\ dDone' = TRUE
  /\ UNCHANGED <<storeVars, authVars, now, calls, dEvents, dOut, dWire, op>>

NextDecoder ==
  \/ \E k \in 1..Len(dWire) : DecoderRead(k)
  \/ DecoderDone

SpecDecoder == InitDecoder /\ [][NextDecoder]_vars

\* The event of the text that follows the last line terminator of the body.
TailEvent == TokenEv(<<"y">>)

\* Texts without a line terminator: the whole payload line of TailEvent, and
\* a beginning of it.
DecoderTails ==
  { DataPrefix \o Stringify(TailEvent),
    DataPrefix \o <<"{", "t">> }

\* The response body is the text of up to MaxEvents event lines followed by
\* an unterminated partial line.
InitTail ==
  /\ conversations = << >>
  /\ currentConversationId = NoId
  /\ isLoading = FALSE
  /\ error = NULL
  /\ user = NULL
  /\ accessToken = NULL
  /\ isAuthenticated = FALSE
  /\ now = 0
  /\ calls = [c \in CallIds |-> NoCall]
  /\ dEvents \in EventSeqs(MaxEvents)
  /\ \E tail \in DecoderTails : dWire = EncodeAll(dEvents) \o tail
  /\ dOut = <<>>
  /\ dDone = FALSE
  /\ op = NoOp

SpecTail == InitTail /\ [][NextDecoder]_vars

\* ------------------------------------------------- store specification
\* The chat store alone, called in any order with any arguments, known ids
\* and unknown ones.  Every call that reads the clock runs one tick after
\* the last one that did.
UnknownId == <<-2, "">>            \* an id no conversation and no message has

\* The clock of the backend, ahead of every value the local clock reaches.
ServerTime == MaxStoreTime + 2

\* What GET /api/chat/conversations/{id} answers, formatted as page.tsx
\* lines 42-53 do: the backend's copy of the conversation the client created
\* first, with one finished exchange, and a conversation created elsewhere
\* and stamped by the backend's clock.  Both have updated_at >= created_at.
BackendFirst ==
  [id |-> generateId(0, "k3f9"),
   messages |-> << Message(<<0, "b1">>, "user", <<"a">>, NULL, 0),
                   Message(<<0, "b2">>, "assistant", <<"z">>, <<"s1">>, 0) >>,
   createdAt |-> 0, updatedAt |-> 0]
BackendOther ==
  [id |-> generateId(ServerTime, "k3f9"), messages |-> <<>>,
   createdAt |-> ServerTime, updatedAt |-> ServerTime]
BackendLists == { <<BackendFirst>>, <<BackendOther>>, <<BackendFirst, BackendOther>> }

\* chat.ts lines 164-172: the conversations map after loadConversations
RECURSIVE LoadConversations(_, _)
LoadConversations(convs, list) ==
  IF list = <<>> THEN convs
  ELSE LoadConversations(MapSet(convs, Head(list).id, Head(list)), Tail(list))

\* Array.from(conversations.values()): the conversations in the order of the
\* Map, as a sequence of ids.  The model keeps no insertion order; the order
\* is one enumeration of the keys.
Values(convs) ==
  CHOOSE s \in [1..Cardinality(DOMAIN convs) -> DOMAIN convs] :
    \A k \in DOMAIN convs : \E i \in DOMAIN s : s[i] = k

\* Sidebar.tsx line 38: the comparator; negative when a sorts before b
Compare(convs, a, b) == convs[b].updatedAt - convs[a].updatedAt

\* Array.prototype.sort (stable): x goes behind every element it does not
\* sort before.
RECURSIVE Insert(_, _, _)
Insert(convs, sorted, x) ==
  IF sorted = <<>> THEN <<x>>
  ELSE IF Compare(convs, x, Head(sorted)) < 0 THEN <<x>> \o sorted
  ELSE <<Head(sorted)>> \o Insert(convs, Tail(sorted), x)

RECURSIVE Sort(_, _)
Sort(convs, ids) ==
  IF ids = <<>> THEN <<>>
  ELSE Insert(convs, Sort(convs, SubSeq(ids, 1, Len(ids) - 1)), ids[Len(ids)])

\* Sidebar.tsx lines 37-39: conversationList, as the ids in listing order
conversationList(convs) == Sort(convs, Values(convs))

\* The ids the caller passes: those of the store and one that is unknown.
ConversationArgs == DOMAIN conversations \cup {UnknownId}
MessageArgs ==
  UNION { { conversations[k].messages[i].id : i \in 1..Len(conversations[k].messages) } :
          k \in DOMAIN conversations } \cup {UnknownId}
UpdateArgs == { [content |-> <<"b">>, sources |-> <<"s1">>] }

Call(name, conversationId, messageId, updates) ==
  [name |-> name, conversationId |-> conversationId, messageId |-> messageId,
   updates |-> updates]

\* chat.ts lines 60-77
StoreCreate(r) ==
  /\ now < MaxStoreTime
  /\ conversations' = MapSet(conversations, generateId(now, r),
                             NewConversation(generateId(now, r), now))
  /\ currentConversationId' = generateId(now, r)
  /\ now' = now + 1
  /\ op' = Call("createConversation", generateId(now, r), NoId, NoOp.updates)
  /\ UNCHANGED <<isLoading, error, authVars, calls, decVars>>

\* chat.ts lines 83-104
StoreAdd(conversationId, role, r) ==
  /\ now < MaxStoreTime
  /\ conversations' = AddMessage(conversations, conversationId, role, <<"a">>,
                                 generateMessageId(now, r), now)
  /\ now' = now + 1
  /\ op' = Call("addMessage", conversationId, generateMessageId(now, r), NoOp.updates)
  /\ UNCHANGED <<currentConversationId, isLoading, error, authVars, calls, decVars>>

\* chat.ts lines 106-126
StoreUpdate(conversationId, messageId, updates) ==
  /\ now < MaxStoreTime
  /\ conversations' = UpdateMessage(conversations, conversationId, messageId, updates, now)
  /\ now' = now + 1
  /\ op' = Call("updateMessage", conversationId, messageId, updates)
  /\ UNCHANGED <<currentConversationId, isLoading, error, authVars, calls, decVars>>

\* chat.ts lines 140-151
StoreDelete(id) ==
  /\ conversations' = MapDelete(conversations, id)
  /\ currentConversationId' = NewCurrentId(currentConversationId, id)
  /\ op' = Call("deleteConversation", id, NoId, NoOp.updates)
  /\ UNCHANGED <<isLoading, error, authVars, now, calls, decVars>>

\* chat.ts lines 79-81
StoreSetCurrent(id) ==
  /\ currentConversationId' = id
  /\ op' = Call("setCurrentConversation", id, NoId, NoOp.updates)
  /\ UNCHANGED <<conversations, isLoading, error, authVars, now, calls, decVars>>

\* chat.ts lines 153-162
StoreLoad(conversation) ==
  /\ conversations' = MapSet(conversations, conversation.id, conversation)
  /\ currentConversationId' = conversation.id
  /\ op' = Call("loadConversation", conversation.id, NoId, NoOp.updates)
  /\ UNCHANGED <<isLoading, error, authVars, now, calls, decVars>>

\* chat.ts lines 164-172
StoreLoadMany(list) ==
  /\ conversations' = LoadConversations(conversations, list)
  /\ op' = Call("loadConversations", Head(list).id, NoId, NoOp.updates)
  /\ UNCHANGED <<currentConversationId, isLoading, error, authVars, now, calls, decVars>>

NextStore ==
  \/ \E r \in FirstRand : StoreCreate(r)
  \/ \E k \in ConversationArgs, role \in {"user", "assistant"}, r \in FirstRand :
       StoreAdd(k, role, r)
  \/ \E k \in ConversationArgs, m \in MessageArgs, u \in UpdateArgs : StoreUpdate(k, m, u)
  \/ \E k \in ConversationArgs : StoreDelete(k)
  \/ \E k \in DOMAIN conversations \cup {NoId} : StoreSetCurrent(k)
  \/ \E list \in BackendLists : StoreLoad(Head(list))
  \/ \E list \in BackendLists : StoreLoadMany(list)

SpecStore == Init /\ [][NextStore]_vars

\* ------------------------------------- controller with backend loads
\* app/chat/page.tsx lines 27-66: the effect run when the chat page mounts;
\* its requests have been answered with a list that is not empty and the
\* formatted conversations are put into the store, whatever the store holds
\* and whatever exchange is in flight at that moment.
loadConversationsFromBackend(list) ==
  /\ conversations' = LoadConversations(conversations, list)
  /\ UNCHANGED <<currentConversationId, isLoading, error, authVars, now, calls, decVars, op>>

NextLoad ==
  \/ Next
  \/ \E list \in BackendLists : loadConversationsFromBackend(list)

SpecLoad == Init /\ [][NextLoad]_vars

\* ------------------------------------- controller with any random suffix
\* handleSend when Math.random() gives the same suffix to the two message
\* ids it generates within one clock value.
NextIds ==
  \/ Next
  \/ \E input \in UserInputs, r \in FirstRand : HandleSend(input, r, r, r)

SpecIds == Init /\ [][NextIds]_vars

\* ------------------------------------- controller under a fair scheduler
\* A continuation of invocation c runs: the generator or the for-await loop
\* goes on with what has already arrived.
ExchangeProgress(c) ==
  \/ StreamStart(c)
  \/ \E outcome \in FetchOutcomes : FetchReturn(c, outcome)
  \/ Respond(c)
  \/ ApplyEvent(c)

\* The byte source of invocation c ends or fails.
SourceEnds(c) == ReadDone(c) \/ ReadFail(c)

\* The event loop runs every continuation whose promise has settled, and the
\* byte source ends or fails in the end; the delivery of one more chunk is
\* never required.
SpecLive ==
  /\ Init /\ [][Next]_vars
  /\ \A c \in CallIds : WF_vars(ExchangeProgress(c)) /\ WF_vars(SourceEnds(c))

\* ------------------------------------------------------------ properties
InFlightCalls == { c \in CallIds : InFlight(c) }

\* The placeholder assistant message the invocation `call` appended, as far as
\* the map `convs` still holds it.
HasPlaceholder(convs, call) ==
  /\ call.conversationId \in DOMAIN convs
  /\ call.phIdx \in 1..Len(convs[call.conversationId].messages)
  /\ convs[call.conversationId].messages[call.phIdx].id = call.phId
  /\ convs[call.conversationId].messages[call.phIdx].role = "assistant"

Placeholder(convs, call) == convs[call.conversationId].messages[call.phIdx]

MessageCount(convs) ==
  Cardinality(UNION { { <<id, i>> : i \in 1..Len(convs[id].messages) } : id \in DOMAIN convs })

\* The step returns from invocation c.
Returns(c) == InFlight(c) /\ calls'[c].pc = "unused"
\* The step returns from invocation c through catch (the Failed path).
Fails(c) == Returns(c) /\ ~ReadDone(c)

RECURSIVE TokenText(_)
TokenText(evs) ==
  IF evs = <<>> THEN <<>>
  ELSE (IF Head(evs).type = "token" THEN Head(evs).content ELSE <<>>) \o TokenText(Tail(evs))

HasType(evs, t) == \E i \in 1..Len(evs) : evs[i].type = t

\* C1 (as claimed): once the byte source has ended, the values yielded are the
\* N encoded events in order, however the bytes were cut into chunks.
C1_ChunkBoundaryInvariance == dDone => dOut = dEvents

\* C2: while isLoading is true no step appends a message or starts another
\* invocation (a handleSend call made then changes nothing), an in-flight
\* invocation always has the flag set, and at most one exchange is in flight.
C2_ReentrancyGuard ==
  /\ [](Cardinality(InFlightCalls) <= 1)
  /\ [](InFlightCalls # {} => isLoading)
  /\ [][isLoading => /\ MessageCount(conversations') <= MessageCount(conversations)
                     /\ InFlightCalls' \subseteq InFlightCalls]_vars

C2_Witness ==
  \E c \in CallIds : calls[c].pc = "reading" /\ calls[c].seen # <<>> /\ isLoading

\* C3 (as claimed): when an invocation returns and the conversation still holds
\* its placeholder, the placeholder's content is not empty.
C3_NoDanglingPlaceholder ==
  [][\A c \in CallIds :
       Returns(c) /\ HasPlaceholder(conversations', calls[c])
         => Placeholder(conversations', calls[c]).content # <<>>]_vars

\* C4: an accepted submission appends, to a conversation it has just created
\* and made active when there was no active one, and to the active conversation
\* otherwise, exactly a user message with the trimmed input followed by an
\* assistant message with empty content; no request has been issued by then.
C4_DispatchOrdering ==
  [][\A c \in CallIds :
       calls[c].pc = "unused" /\ calls'[c].pc # "unused"
         => LET cid == calls'[c].conversationId
                old == IF currentConversationId = NoId THEN <<>>
                       ELSE conversations[cid].messages
                new == conversations'[cid].messages
            IN /\ calls'[c].pc = "start"
               /\ currentConversationId = NoId => cid \notin DOMAIN conversations
               /\ currentConversationId # NoId => cid = currentConversationId
               /\ currentConversationId' = cid
               /\ cid \in DOMAIN conversations'
               /\ Len(new) = Len(old) + 2
               /\ SubSeq(new, 1, Len(old)) = old
               /\ new[Len(old) + 1].role = "user"
               /\ new[Len(old) + 1].content # <<>>
               /\ \E input \in UserInputs : new[Len(old) + 1].content = Trim(input)
               /\ new[Len(old) + 2].role = "assistant"
               /\ new[Len(old) + 2].content = <<>>
               /\ \A k \in DOMAIN conversations' \ {cid} :
                    k \in DOMAIN conversations /\ conversations'[k] = conversations[k]]_vars

C4_Witness ==
  \E c \in CallIds :
    /\ calls[c].pc = "start"
    /\ HasPlaceholder(conversations, calls[c])
    /\ calls[c].phIdx = 4
    /\ conversations[calls[c].conversationId].messages[3].content = <<"a">>

\* C5: while an exchange is streaming and no complete event has been applied,
\* the placeholder's content is the concatenation of the texts of the token
\* events applied so far, in the order they were decoded.
C5_TokenAccumulation ==
  \A c \in CallIds :
    calls[c].pc = "reading" /\ ~HasType(calls[c].seen, "complete")
      /\ HasPlaceholder(conversations, calls[c])
      => Placeholder(conversations, calls[c]).content = TokenText(calls[c].seen)

C5_Witness ==
  \E c \in CallIds :
    /\ calls[c].pc = "reading"
    /\ HasPlaceholder(conversations, calls[c])
    /\ Len(calls[c].seen) = 2
    /\ Placeholder(conversations, calls[c]).content = <<"x", "y">>

\* The step applies the complete event at the head of the pending values of c.
AppliesComplete(c) ==
  /\ calls[c].pc = "reading" /\ calls[c].pending # <<>>
  /\ Head(calls[c].pending).type = "complete"
  /\ calls'[c] # calls[c]
  /\ HasPlaceholder(conversations, calls[c])
\* The step applies the token event at the head of the pending values of c.
AppliesToken(c) ==
  /\ calls[c].pc = "reading" /\ calls[c].pending # <<>>
  /\ Head(calls[c].pending).type = "token"
  /\ calls'[c] # calls[c]
  /\ HasPlaceholder(conversations, calls[c])

\* C6 (as claimed): a complete event sets the placeholder's content to the
\* event's final text, to the accumulator only when the event carries no final
\* text, and sets its sources to the event's; a token event leaves sources alone.
C6_CompletionAsClaimed ==
  [][\A c \in CallIds :
       AppliesComplete(c)
         => /\ HasPlaceholder(conversations', calls[c])
            /\ Placeholder(conversations', calls[c]).content =
                 IF Head(calls[c].pending).answer = NULL THEN calls[c].fullContent
                 ELSE Head(calls[c].pending).answer
            /\ Placeholder(conversations', calls[c]).sources =
                 Head(calls[c].pending).sources]_vars

\* C6 (amended): a complete event sets the placeholder's content to the event's
\* final text, to the accumulator when the final text is absent or empty, and
\* sets its sources to the event's; a token event leaves the sources alone.
C6_Completion ==
  [][\A c \in CallIds :
       /\ AppliesComplete(c)
            => /\ HasPlaceholder(conversations', calls[c])
               /\ Placeholder(conversations', calls[c]).content =
                    IF Head(calls[c].pending).answer \in {NULL, <<>>}
                    THEN calls[c].fullContent
                    ELSE Head(calls[c].pending).answer
               /\ Placeholder(conversations', calls[c]).sources =
                    Head(calls[c].pending).sources
       /\ AppliesToken(c)
            => /\ HasPlaceholder(conversations', calls[c])
               /\ Placeholder(conversations', calls[c]).sources =
                    Placeholder(conversations, calls[c]).sources]_vars

C6_Witness ==
  \E c \in CallIds :
    /\ calls[c].pc = "reading"
    /\ calls[c].fullContent = <<"x">>
    /\ HasType(calls[c].seen, "complete")
    /\ HasPlaceholder(conversations, calls[c])
    /\ Placeholder(conversations, calls[c]).content = <<"z">>
    /\ Placeholder(conversations, calls[c]).sources = <<"s1">>

\* C7: when an exchange fails, the loading flag is false and the error holds a
\* message afterwards, and a placeholder whose content was still empty now
\* holds the apology text.
C7_FailedPath ==
  [][\A c \in CallIds :
       Fails(c)
         => /\ isLoading' = FALSE
            /\ error' # NULL
            /\ (HasPlaceholder(conversations, calls[c])
                  /\ Placeholder(conversations, calls[c]).content = <<>>)
                 => /\ HasPlaceholder(conversations', calls[c])
                    /\ Placeholder(conversations', calls[c]).content = ApologyText]_vars

C7_Witness ==
  /\ ~isLoading
  /\ error = HttpError("500")
  /\ \E id \in DOMAIN conversations :
       /\ Len(conversations[id].messages) = 2
       /\ conversations[id].messages[2].content = ApologyText

\* C8: no in-flight exchange has applied an event after an error event: the
\* step that consumes an error event returns through the Failed path, and
\* the values still pending behind it are dropped with the invocation.
C8_ErrorEventAborts ==
  /\ [](\A c \in CallIds : ~HasType(calls[c].seen, "error"))
  /\ [][\A c \in CallIds :
          calls[c].pc = "reading" /\ calls[c].pending # <<>>
            /\ Head(calls[c].pending).type = "error" /\ calls'[c] # calls[c]
            => /\ Fails(c)
               /\ error' # NULL
               /\ HasPlaceholder(conversations, calls[c])
                    => /\ HasPlaceholder(conversations', calls[c])
                       /\ Placeholder(conversations', calls[c]).content \in
                            {Placeholder(conversations, calls[c]).content, ApologyText}]_vars

C8_Witness ==
  /\ error = <<"E">>
  /\ InFlightCalls = {}
  /\ \E id \in DOMAIN conversations :
       /\ Len(conversations[id].messages) = 2
       /\ conversations[id].messages[2].content = ApologyText

\* C9: an invocation whose generator starts while the token is absent fails
\* with the authentication-required message and never reaches the fetch.
C9_MissingCredential ==
  [][\A c \in CallIds :
       calls[c].pc = "start" /\ accessToken \in {NULL, <<>>} /\ calls'[c] # calls[c]
         => /\ Fails(c)
            /\ error' = NotAuthenticated
            /\ isLoading' = FALSE]_vars

C9_Witness ==
  /\ error = NotAuthenticated
  /\ InFlightCalls = {}
  /\ \E id \in DOMAIN conversations :
       /\ Len(conversations[id].messages) = 2
       /\ conversations[id].messages[2].content = ApologyText

ChunkYields == [ls \in ChunkLines |-> DecodeChunk(EncodeLines(ls))]

\* C11: a chunk of whole lines yields exactly the events of its well-formed
\* lines, in order, the lines that do not parse being dropped; reading a
\* chunk leaves the exchange streaming and the store (error, loading flag,
\* conversations) unchanged, and no parse failure ever reaches handleSend.
C11_MalformedNotFatal ==
  /\ [](\A ls \in ChunkLines :
          ChunkYields[ls] = SelectSeq(ls, LAMBDA v : v # ParseError))
  /\ [](\A c \in CallIds : \A i \in 1..Len(calls[c].pending) :
          calls[c].pending[i] # ParseError)
  /\ [][\A c \in CallIds :
          calls[c].pc = "reading" /\ calls'[c].reads = calls[c].reads + 1
            => /\ \E ls \in ChunkLines : calls'[c].pending = ChunkYields[ls]
               /\ calls'[c].pc = "reading"
               /\ UNCHANGED storeVars]_vars

C11_Witness ==
  \E c \in CallIds :
    /\ calls[c].pc = "reading"
    /\ calls[c].reads = 1
    /\ calls[c].pending = <<>>
    /\ calls[c].seen = <<>>
    /\ error = NULL
    /\ isLoading

\* C12 (as claimed): the text after the last line terminator of the body is
\* never yielded as an event, also when it is a whole parseable payload line.
C12_PartialLineDiscarded ==
  \A i \in 1..Len(dOut) : dOut[i] # TailEvent

\* The conversation holds a message with this id.
HasMessage(convs, conversationId, messageId) ==
  /\ conversationId \in DOMAIN convs
  /\ \E i \in 1..Len(convs[conversationId].messages) :
       convs[conversationId].messages[i].id = messageId

\* C13 (as claimed): an updateMessage whose conversation id is not in the
\* store, or whose message id is not in that conversation, leaves the whole
\* store unchanged, the conversation's updatedAt included.
C13_UpdateUnknownNoOp ==
  [][op'.name = "updateMessage"
       /\ ~HasMessage(conversations, op'.conversationId, op'.messageId)
       => UNCHANGED storeVars]_vars

\* C14 (as claimed): after an updateMessage, the same call made again, at
\* whatever the clock then shows, leaves the store as it is.
C14_UpdateIdempotent ==
  [][op'.name = "updateMessage"
       => \A t \in {now, now'} :
            UpdateMessage(conversations', op'.conversationId, op'.messageId,
                          op'.updates, t) = conversations']_vars

\* C15: an addMessage on a conversation id the store does not hold changes
\* nothing: same conversations with the same messages and timestamps, same
\* active id, loading flag and error, and no conversation under that id.
C15_AddUnknownNoOp ==
  [][op'.name = "addMessage" /\ op'.conversationId \notin DOMAIN conversations
       => /\ UNCHANGED storeVars
          /\ op'.conversationId \notin DOMAIN conversations']_vars

C15_Witness ==
  /\ op.name = "addMessage"
  /\ op.conversationId = UnknownId
  /\ UnknownId \notin DOMAIN conversations
  /\ \E k \in DOMAIN conversations : Len(conversations[k].messages) > 0

\* C16: after deleteConversation(id) the conversation is neither in the store
\* nor in the listing; the active id is null if it was id and is unchanged
\* otherwise; every other conversation is as it was and none is added.
C16_DeleteConversation ==
  [][op'.name = "deleteConversation"
       => LET id == op'.conversationId
          IN /\ id \notin DOMAIN conversations'
             /\ \A i \in 1..Len(conversationList(conversations')) :
                  conversationList(conversations')[i] # id
             /\ currentConversationId = id => currentConversationId' = NoId
             /\ currentConversationId # id => currentConversationId' = currentConversationId
             /\ DOMAIN conversations' = DOMAIN conversations \ {id}
             /\ \A k \in DOMAIN conversations' : conversations'[k] = conversations[k]]_vars

C16_Witness ==
  /\ op.name = "deleteConversation"
  /\ op.conversationId = BackendFirst.id
  /\ currentConversationId = NoId
  /\ BackendFirst.id \notin DOMAIN conversations
  /\ BackendOther.id \in DOMAIN conversations

\* C17 (as claimed): the listing is always sorted by updatedAt, latest first,
\* and an addMessage or updateMessage on a conversation of the store never
\* lowers its updatedAt.
C17_ListingOrder ==
  /\ [](LET l == conversationList(conversations)
        IN \A i \in 1..Len(l) : \A j \in 1..Len(l) :
             i < j => conversations[l[i]].updatedAt >= conversations[l[j]].updatedAt)
  /\ [][op'.name \in {"addMessage", "updateMessage"}
          /\ op'.conversationId \in DOMAIN conversations
          => conversations'[op'.conversationId].updatedAt
               >= conversations[op'.conversationId].updatedAt]_vars

\* C18 (as claimed): every conversation of the store has updatedAt >= createdAt.
C18_TimestampInvariant ==
  \A k \in DOMAIN conversations : conversations[k].updatedAt >= conversations[k].createdAt

\* The step is one that invocation c takes after its dispatch: a token, a
\* completion or a failure update, or any other step of its exchange.
ExchangeStep(c) == InFlight(c) /\ calls'[c] # calls[c]

\* C19 (as claimed): a step of an exchange changes the content and the sources
\* of no message but the placeholder this exchange appended, also when the
\* backend's conversations are loaded while the exchange is in flight.
C19_StreamingTargetExclusivity ==
  [][\A c \in CallIds :
       ExchangeStep(c)
         => \A k \in DOMAIN conversations : \A i \in 1..Len(conversations[k].messages) :
              ~(k = calls[c].conversationId /\ i = calls[c].phIdx
                  /\ HasPlaceholder(conversations, calls[c]))
                => /\ k \in DOMAIN conversations'
                   /\ i <= Len(conversations'[k].messages)
                   /\ conversations'[k].messages[i].content = conversations[k].messages[i].content
                   /\ conversations'[k].messages[i].sources = conversations[k].messages[i].sources]_vars

\* C20 (as claimed): a user message keeps its content in every step, as long
\* as its conversation holds it.
C20_UserMessageImmutable ==
  [][\A k \in DOMAIN conversations \cap DOMAIN conversations' :
       \A i \in 1..Len(conversations[k].messages) :
         /\ conversations[k].messages[i].role = "user"
         /\ i <= Len(conversations'[k].messages)
         /\ conversations'[k].messages[i].id = conversations[k].messages[i].id
         => conversations'[k].messages[i].content = conversations[k].messages[i].content]_vars

\* The ids of the messages of a conversation, in order.
MessageIds(conv) == [i \in 1..Len(conv.messages) |-> conv.messages[i].id]

IsPrefix(s, t) == Len(s) <= Len(t) /\ SubSeq(t, 1, Len(s)) = s

NoRepeat(s) == \A i \in 1..Len(s) : \A j \in 1..Len(s) : s[i] = s[j] => i = j

\* The message ids a conversation had before the step (none if it is new).
IdsBefore(k) == IF k \in DOMAIN conversations THEN MessageIds(conversations[k]) ELSE <<>>

\* C21 (as claimed): across every step the message ids a conversation had are
\* a prefix of the ids it has afterwards, and every id appended is fresh: no
\* conversation ever holds the same message id twice.
C21_AppendOnly ==
  [][\A k \in DOMAIN conversations' :
       /\ IsPrefix(IdsBefore(k), MessageIds(conversations'[k]))
       /\ NoRepeat(MessageIds(conversations'[k]))]_vars

\* C22: a handleSend whose input is empty or only whitespace changes nothing:
\* conversations, messages, active id, loading flag, error and the calls (no
\* invocation starts, so no request is issued) are as before; no user
\* message with blank content is ever in the store.
C22_EmptyInputRejected ==
  /\ [](\A k \in DOMAIN conversations : \A i \in 1..Len(conversations[k].messages) :
          conversations[k].messages[i].role = "user"
            => Trim(conversations[k].messages[i].content) # <<>>)
  /\ [][\A input \in UserInputs :
          Trim(input) = <<>>
            => \A rc \in FirstRand, ru \in FirstRand, ra \in SecondRand :
                 HandleSend(input, rc, ru, ra) => UNCHANGED vars]_vars

C22_Witness ==
  /\ ~isLoading
  /\ InFlightCalls = {}
  /\ currentConversationId \in DOMAIN conversations
  /\ Len(conversations[currentConversationId].messages) = 2
  /\ conversations[currentConversationId].messages[2].content = <<"z">>
  /\ \E input \in UserInputs : input # <<>> /\ Rejected(input)

\* C23: the reader is held only while the generator is in its read loop; the
\* step that obtains the response body acquires it, and every step that ends
\* the exchange (end of stream, a rejected read, an error event or any other
\* exception thrown while consuming) leaves it released.
C23_ReaderReleased ==
  /\ [](\A c \in CallIds : calls[c].locked => calls[c].pc = "reading")
  /\ [][\A c \in CallIds :
          /\ Returns(c) => ~calls'[c].locked
          /\ calls[c].pc = "responded" /\ calls'[c].pc = "reading" => calls'[c].locked]_vars

C23_Witness ==
  /\ error = UnknownError
  /\ InFlightCalls = {}
  /\ \A c \in CallIds : ~calls[c].locked
  /\ \E k \in DOMAIN conversations :
       /\ Len(conversations[k].messages) = 2
       /\ conversations[k].messages[2].content = ApologyText

\* The step is the normal return of invocation c: the stream ended, no error
\* event was consumed and nothing was thrown.
Completes(c) == Returns(c) /\ ~Fails(c)

\* C24: when an exchange ends normally the loading flag is false and the
\* error is null afterwards, whatever error an earlier exchange had left.
C24_CompletedState ==
  [][\A c \in CallIds : Completes(c) => isLoading' = FALSE /\ error' = NULL]_vars

C24_Witness ==
  /\ ~isLoading
  /\ error = NULL
  /\ InFlightCalls = {}
  /\ \E k \in DOMAIN conversations :
       /\ Len(conversations[k].messages) = 4
       /\ conversations[k].messages[2].content = ApologyText
       /\ conversations[k].messages[4].content = <<"x">>

\* The step is the dispatch of invocation c.
Dispatches(c) == calls[c].pc = "unused" /\ calls'[c].pc = "start"

\* C25: the loading flag changes only when an invocation is dispatched (it
\* goes from false to true) and when an invocation returns (it goes from true
\* to false); it is true exactly while an invocation is in flight; once set it
\* is cleared in the end; and when it is false a submission that is not
\* blank is not rejected.
C25_LifecycleLiveness ==
  /\ [][/\ \A c \in CallIds : Dispatches(c) => ~isLoading /\ isLoading'
        /\ \A c \in CallIds : Returns(c) => isLoading /\ ~isLoading'
        /\ isLoading' # isLoading
             => \E c \in CallIds : Dispatches(c) \/ Returns(c)]_vars
  /\ [](isLoading <=> InFlightCalls # {})
  /\ [](~isLoading => \A input \in UserInputs : Trim(input) # <<>> => ~Rejected(input))
  /\ (isLoading ~> ~isLoading)

C25_Witness ==
  /\ ~isLoading
  /\ InFlightCalls = {}
  /\ \E k \in DOMAIN conversations :
       /\ Len(conversations[k].messages) = 4
       /\ conversations[k].messages[2].content = <<"z">>
       /\ conversations[k].messages[4].content = ApologyText

\* The step applies, for invocation c, a decoded event whose type is none of
\* token, complete and error.
AppliesOther(c) ==
  /\ calls[c].pc = "reading" /\ calls[c].pending # <<>>
  /\ Head(calls[c].pending) # JsonNull
  /\ Head(calls[c].pending).type \notin {"token", "complete", "error"}
  /\ calls'[c] # calls[c]

C27_ActivePointerValid ==
  currentConversationId = NoId \/ currentConversationId \in DOMAIN conversations

\* A conversation other than the active one has been deleted and the active
\* one is still there.
C27_Witness ==
  /\ op.name = "deleteConversation"
  /\ op.conversationId = BackendOther.id
  /\ currentConversationId = BackendFirst.id
  /\ BackendFirst.id \in DOMAIN conversations
  /\ BackendOther.id \notin DOMAIN conversations

\* C28: when an invocation returns through catch and its placeholder is in
\* the store, the placeholder is still there afterwards; its content is what
\* it was if that was not empty, and the apology if it was empty.
C28_PartialContentSurvives ==
  [][\A c \in CallIds :
      Fails(c) /\ HasPlaceholder(conversations, calls[c]) =>
        /\ HasPlaceholder(conversations', calls[c])
        /\ Placeholder(conversations', calls[c]).content =
             IF Placeholder(conversations, calls[c]).content = <<>>
             THEN ApologyText
             ELSE Placeholder(conversations, calls[c]).content]_vars

\* The read failed after a token had been applied: the answer is that token.
C28_Witness ==
  /\ ~isLoading
  /\ error = ReadFailed
  /\ \E k \in DOMAIN conversations :
       /\ Len(conversations[k].messages) = 2
       /\ conversations[k].messages[2].role = "assistant"
       /\ conversations[k].messages[2].content = <<"x">>

\* The conversation invocation c was dispatched for is no longer in the store.
Deleted(c) == InFlight(c) /\ calls[c].conversationId \notin DOMAIN conversations

\* C29: once the conversation of an invocation in flight has been deleted, no
\* step of that invocation changes the conversations; a token or a complete
\* event is consumed without an error and the loop goes on with the next
\* value; and the step that returns from the invocation clears the loading
\* flag.
C29_DeletedInFlight ==
  [][\A c \in CallIds :
      ExchangeStep(c) /\ Deleted(c) =>
        /\ conversations' = conversations
        /\ Returns(c) => ~isLoading'
        /\ /\ calls[c].pc = "reading" /\ calls[c].pending # <<>>
           /\ Head(calls[c].pending).type \in {"token", "complete"}
           => /\ calls'[c].pc = "reading"
              /\ calls'[c].pending = Tail(calls[c].pending)
              /\ error' = error /\ isLoading']_vars

\* The store is empty while the invocation has consumed one token and holds
\* the next one.
C29_Witness ==
  \E c \in CallIds :
    /\ Deleted(c)
    /\ conversations = <<>>
    /\ calls[c].pc = "reading"
    /\ calls[c].seen = <<TokenEv(<<"x">>)>>
    /\ calls[c].pending = <<TokenEv(<<"y">>)>>

\* C30: a step of an invocation in flight leaves every conversation other
\* than the one the invocation was dispatched for as it is, whichever
\* conversation is active; a token or a complete event applied while another
\* conversation is active still sets the content of the invocation's own
\* placeholder, and a failure then still writes the apology into it when it
\* is empty.
C30_BoundToDispatchConversation ==
  [][\A c \in CallIds :
      ExchangeStep(c) =>
        /\ \A k \in DOMAIN conversations \ {calls[c].conversationId} :
             k \in DOMAIN conversations' /\ conversations'[k] = conversations[k]
        /\ currentConversationId # calls[c].conversationId
             /\ HasPlaceholder(conversations, calls[c])
           => /\ HasPlaceholder(conversations', calls[c])
              /\ AppliesToken(c) =>
                   Placeholder(conversations', calls[c]).content = calls'[c].fullContent
              /\ AppliesComplete(c) =>
                   Placeholder(conversations', calls[c]).content =
                     FinalContent(Head(calls[c].pending), calls[c].fullContent)
              /\ Fails(c) /\ Placeholder(conversations, calls[c]).content = <<>> =>
                   Placeholder(conversations', calls[c]).content = ApologyText]_vars

\* Another conversation of the store is the active one while the invocation
\* has written a token into its own placeholder and holds the next token.
C30_Witness ==
  \E c \in CallIds :
    /\ calls[c].pc = "reading"
    /\ calls[c].seen = <<TokenEv(<<"x">>)>>
    /\ calls[c].pending = <<TokenEv(<<"y">>)>>
    /\ currentConversationId \in DOMAIN conversations \ {calls[c].conversationId}
    /\ HasPlaceholder(conversations, calls[c])
    /\ Placeholder(conversations, calls[c]).content = <<"x">>

====
